---- MODULE Spec2Model ----
(***************************************************************************)
(* Model of the chat room Durable Object (ChatRoom) and of the worker      *)
(* entry that routes websocket upgrades to it.                             *)
(*                                                                         *)
(* One action per event reaction of the single-threaded room: an HTTP      *)
(* request (fetch), an inbound websocket frame, a close event, an error    *)
(* event.  Every reaction is synchronous in the source (no await inside    *)
(* handleSession or the listeners), so each is one atomic step.            *)
(*                                                                         *)
(* Three specifications share the module.  Spec is the room.  SpecRoster   *)
(* is the room with an observer of the roster each registered session was  *)
(* last sent.  SpecClient is the browser client (ChatApp of the README):   *)
(* one action per handler of its WebSocket, per firing of its ping timer,  *)
(* for the submit of each of its two forms and for its unmount.  Each      *)
(* specification leaves the variables of the others alone.                 *)
(*                                                                         *)
(* Strings that the code takes apart or builds (usernames, chat text) are  *)
(* sequences of pieces, one code point each where the code looks at the    *)
(* code points; opaque strings (paths, header values, raw frame text) are  *)
(* TLA+ strings.                                                           *)
(***************************************************************************)
EXTENDS Naturals, Sequences, FiniteSets, TLC

\* ------------------------------------------------------------------ bounds
\* number of websocket connections the room ever accepts
MaxConns == 2
\* largest clock reading (new Date()) of a reaction
MaxTime == 0

\* number of WebSocket objects the browser client ever creates
MaxSockets == 2
\* number of distinct ping ids the client draws
MaxPings == 1
\* number of chat messages the client's list holds
MaxMessages == 1

Conns == 1..MaxConns
Times == 0..MaxTime
Sockets == 1..MaxSockets
PingIds == 1..MaxPings

VARIABLES
  sessions,   \* this.sessions: the Map's keys in insertion order
  sess,       \* the Session object created for each websocket (username, quit)
  conn,       \* transport state of each websocket: idle, open, errored, closed
  ev,         \* the last event reaction: its kind, websocket and input
  log,        \* every webSocket.send call of the last reaction, in call order
  calls,      \* every broadcast() call of the last reaction, in call order
  outcome,    \* of the last reaction: the HTTP status of a fetch, whether the
              \* reaction threw, what sessions.delete returned in close/error
  seen,       \* observer (SpecRoster only): for each registered session,
              \* the users of the last userList frame that a send put on its
              \* websocket without throwing
  \* the browser client (ChatApp), SpecClient only
  isConnected,       \* useState isConnected
  connectionStatus,  \* useState connectionStatus
  messages,          \* useState messages
  onlineUsers,       \* useState onlineUsers
  pingTime,          \* useState pingTime (null or a latency)
  wsRef,             \* wsRef.current: 0 for null, else the WebSocket
  readyState,        \* readyState of each WebSocket the client created
  pingIntervalRef,   \* pingIntervalRef.current is not null
  intervals,         \* number of setInterval timers not yet cleared
  pendingPings,      \* keys of the pendingPings Map
  mounted,           \* the component is mounted: its cleanup has not run
  cev                \* the last client step: kind, WebSocket, frames it sent

roomVars == <<sessions, sess, conn, ev, log, calls, outcome>>
clientVars == <<isConnected, connectionStatus, messages, onlineUsers, pingTime,
                wsRef, readyState, pingIntervalRef, intervals, pendingPings,
                mounted, cev>>
vars == <<sessions, sess, conn, ev, log, calls, outcome, seen,
          isConnected, connectionStatus, messages, onlineUsers, pingTime,
          wsRef, readyState, pingIntervalRef, intervals, pendingPings,
                mounted, cev>>

\* ----------------------------------------------------------- helper values
Range(s) == {s[i] : i \in 1..Len(s)}

\* The code points that String.prototype.trim strips, one string a code
\* point: the WhiteSpace code points (tab, vertical tab, form feed, space,
\* no-break space, zero width no-break space and the other space separators
\* of Unicode) and the LineTerminator code points (line feed, carriage
\* return, line separator, paragraph separator).  A code point that has no
\* escape is written by its number.
WhiteSpace ==
  {"\t", "<U+000B>", "\f", " ", "<U+00A0>", "<U+FEFF>",
   "<U+1680>", "<U+2000>", "<U+2001>", "<U+2002>", "<U+2003>", "<U+2004>",
   "<U+2005>", "<U+2006>", "<U+2007>", "<U+2008>", "<U+2009>", "<U+200A>",
   "<U+202F>", "<U+205F>", "<U+3000>"}
LineTerminator == {"\n", "\r", "<U+2028>", "<U+2029>"}
Stripped == WhiteSpace \cup LineTerminator

\* String.prototype.trim on a sequence of code points
RECURSIVE TrimLeft(_)
TrimLeft(s) ==
  IF s # <<>> /\ Head(s) \in Stripped THEN TrimLeft(Tail(s)) ELSE s

RECURSIVE TrimRight(_)
TrimRight(s) ==
  IF s # <<>> /\ s[Len(s)] \in Stripped
  THEN TrimRight(SubSeq(s, 1, Len(s) - 1)) ELSE s

Trim(s) == TrimRight(TrimLeft(s))

\* JSON scalar values: t is the JavaScript type, v the characters / digits
Str(s) == [t |-> "string", v |-> s]
Num(s) == [t |-> "number", v |-> s]
Undefined == [t |-> "undefined", v |-> <<>>]
Null == [t |-> "null", v |-> <<>>]

\* JavaScript truthiness of a value (the `&& data.text` test)
Truthy(x) ==
  CASE x.t = "string" -> x.v # <<>>
    [] x.t = "number" -> x.v # <<"0">>
    [] x.t = "undefined" -> FALSE
    [] x.t = "null" -> FALSE
    [] OTHER -> TRUE

\* --------------------------------------------------------- inbound frames
\* A parsed JSON value as the message listener reads it: its own type and
\* value, and the three properties the listener reads (type, text, id);
\* a property the value does not have reads as undefined.
Obj(type, text, id) ==
  [t |-> "object", v |-> <<>>, type |-> type, text |-> text, id |-> id]
Scalar(x) ==
  [t |-> x.t, v |-> x.v, type |-> Undefined, text |-> Undefined, id |-> Undefined]

ParseOk(val) == [ok |-> TRUE, val |-> val]
ParseError == [ok |-> FALSE, val |-> Scalar(Undefined)]

\* raw text frames a client may send
TextFrames == {
  "{\"type\":\"message\",\"text\":\"hi\"}",
  "{\"type\":\"message\",\"text\":\"\"}",
  "{\"type\":\"message\"}",
  "{\"type\":\"ping\",\"id\":\"abc\"}",
  "{\"type\":\"ping\"}",
  "{\"type\":\"other\"}",
  "null",
  "not json" }

\* JSON.parse on the frames above
JSONParse(s) ==
  CASE s = "{\"type\":\"message\",\"text\":\"hi\"}" ->
         ParseOk(Obj(Str(<<"m","e","s","s","a","g","e">>), Str(<<"h","i">>), Undefined))
    [] s = "{\"type\":\"message\",\"text\":\"\"}" ->
         ParseOk(Obj(Str(<<"m","e","s","s","a","g","e">>), Str(<<>>), Undefined))
    [] s = "{\"type\":\"message\"}" ->
         ParseOk(Obj(Str(<<"m","e","s","s","a","g","e">>), Undefined, Undefined))
    [] s = "{\"type\":\"ping\",\"id\":\"abc\"}" ->
         ParseOk(Obj(Str(<<"p","i","n","g">>), Undefined, Str(<<"a","b","c">>)))
    [] s = "{\"type\":\"ping\"}" ->
         ParseOk(Obj(Str(<<"p","i","n","g">>), Undefined, Undefined))
    [] s = "{\"type\":\"other\"}" ->
         ParseOk(Obj(Str(<<"o","t","h","e","r">>), Undefined, Undefined))
    [] s = "null" -> ParseOk(Scalar(Null))
    [] OTHER -> ParseError

\* msg.data is a string for a text frame and an ArrayBuffer for a binary one
TextFrame(s) == [kind |-> "text", data |-> s]
BinaryFrame == [kind |-> "binary", data |-> ""]
NoFrame == [kind |-> "none", data |-> ""]
Frames == {TextFrame(s) : s \in TextFrames} \cup {BinaryFrame}

\* -------------------------------------------------------- server messages
SystemName == <<"S","y","s","t","e","m">>
JoinedText(username) == username \o <<" joined the chat">>
LeftText(username) == username \o <<" left the chat">>

ChatMessage(username, text, timestamp) ==
  [type |-> "message", username |-> username, text |-> text, timestamp |-> timestamp]
UserListMessage(users) == [type |-> "userList", users |-> users]
ErrorMessage == [type |-> "error", message |-> "Invalid message format"]
\* Variant of the pong with a fault: the id is not the one of the ping
PongMessage_NoEcho(timestamp, id, serverTime) ==
  [type |-> "pong", timestamp |-> timestamp, id |-> Str(<<>>),
   serverTime |-> serverTime]

PongMessage(timestamp, id, serverTime) ==
  [type |-> "pong", timestamp |-> timestamp, id |-> id, serverTime |-> serverTime]

\* JSON.stringify of a server message: a property whose value is undefined
\* is left out of the wire form (a pong for a ping without id has no id)
Stringify(message) ==
  IF message.type = "pong" /\ message.id = Undefined
  THEN [type |-> "pong", timestamp |-> message.timestamp,
        serverTime |-> message.serverTime]
  ELSE message

\* ------------------------------------------------------ ChatRoom methods
\* A Session object before its websocket exists
NoSession == [username |-> <<>>, quit |-> FALSE]

\* one webSocket.send(payload) call; it throws when the websocket is in F,
\* the websockets whose transport refuses a send during this reaction
Send(ws, payload, F) == [to |-> ws, payload |-> payload, ok |-> ws \notin F]

\* Variants of broadcast with a fault, used to show that the properties
\* below depend on what broadcast does.
\* - the send is not guarded: the first throwing send ends the fan-out
Broadcast_StopAtFailure(reg, S, message, F) ==
  LET messageStr == Stringify(message)
      failing == {i \in 1..Len(reg) : reg[i] \in F}
      last == IF failing = {} THEN Len(reg)
              ELSE CHOOSE i \in failing : \A j \in failing : i <= j
      sends == [i \in 1..last |-> Send(reg[i], messageStr, F)]
  IN  [sessions |-> reg, sess |-> S, sends |-> sends,
       payload |-> messageStr, before |-> reg]

\* - the second pass is missing: marked sessions stay in the Map
Broadcast_NoSweep(reg, S, message, F) ==
  LET messageStr == Stringify(message)
      sends == [i \in 1..Len(reg) |-> Send(reg[i], messageStr, F)]
      marked == [w \in DOMAIN S |->
                   IF \E i \in 1..Len(reg) : reg[i] = w /\ ~sends[i].ok
                   THEN [S[w] EXCEPT !.quit = TRUE]
                   ELSE S[w]]
  IN  [sessions |-> reg, sess |-> marked, sends |-> sends,
       payload |-> messageStr, before |-> reg]

\* - the fan-out misses the entry inserted last
Broadcast_OffByOne(reg, S, message, F) ==
  LET messageStr == Stringify(message)
      sends == [i \in 1..(Len(reg) - 1) |-> Send(reg[i], messageStr, F)]
      marked == [w \in DOMAIN S |->
                   IF \E i \in 1..(Len(reg) - 1) : reg[i] = w /\ ~sends[i].ok
                   THEN [S[w] EXCEPT !.quit = TRUE]
                   ELSE S[w]]
      swept == SelectSeq(reg, LAMBDA w : ~marked[w].quit)
  IN  [sessions |-> swept, sess |-> marked, sends |-> sends,
       payload |-> messageStr, before |-> reg]

\* - a failing entry is deleted inside the first pass, and the pass then
\*   steps over the entry that follows it
RECURSIVE FanOutSkipping(_, _, _, _)
FanOutSkipping(reg, i, messageStr, F) ==
  IF i > Len(reg) THEN <<>>
  ELSE <<Send(reg[i], messageStr, F)>>
       \o FanOutSkipping(reg, IF reg[i] \in F THEN i + 2 ELSE i + 1, messageStr, F)

Broadcast_SkipAfterFailure(reg, S, message, F) ==
  LET messageStr == Stringify(message)
      sends == FanOutSkipping(reg, 1, messageStr, F)
      failed == {sends[i].to : i \in {j \in 1..Len(sends) : ~sends[j].ok}}
      marked == [w \in DOMAIN S |->
                   IF w \in failed THEN [S[w] EXCEPT !.quit = TRUE] ELSE S[w]]
      swept == SelectSeq(reg, LAMBDA w : ~marked[w].quit)
  IN  [sessions |-> swept, sess |-> marked, sends |-> sends,
       payload |-> messageStr, before |-> reg]

\* - the second pass stops after the first entry it deletes
Broadcast_SweepOne(reg, S, message, F) ==
  LET messageStr == Stringify(message)
      sends == [i \in 1..Len(reg) |-> Send(reg[i], messageStr, F)]
      marked == [w \in DOMAIN S |->
                   IF w \in F /\ w \in Range(reg)
                   THEN [S[w] EXCEPT !.quit = TRUE]
                   ELSE S[w]]
      quits == {i \in 1..Len(reg) : marked[reg[i]].quit}
      first == IF quits = {} THEN 0
               ELSE CHOOSE i \in quits : \A j \in quits : i <= j
      swept == [i \in 1..Len(reg) |-> reg[i]]
      kept == SelectSeq([i \in 1..Len(reg) |-> [w |-> reg[i], i |-> i]],
                        LAMBDA e : e.i # first)
  IN  [sessions |-> [i \in 1..Len(kept) |-> kept[i].w], sess |-> marked,
       sends |-> sends, payload |-> messageStr, before |-> reg]

\* broadcast(message) on registry reg with Session objects S.
\* First forEach: one send per entry of the Map, a throwing send (to a
\* websocket of F) sets quit.
\* Second forEach: every entry whose Session has quit set is deleted.
Broadcast(reg, S, message, F) ==
  LET messageStr == Stringify(message)
      sends == [i \in 1..Len(reg) |-> Send(reg[i], messageStr, F)]
      marked == [w \in DOMAIN S |->
                   IF w \in F /\ w \in Range(reg)
                   THEN [S[w] EXCEPT !.quit = TRUE]
                   ELSE S[w]]
      swept == SelectSeq(reg, LAMBDA w : ~marked[w].quit)
  IN  [sessions |-> swept, sess |-> marked, sends |-> sends,
       payload |-> messageStr, before |-> reg]

\* what a reaction records of a broadcast call b whose sends follow the
\* first `at` sends of the reaction: the payload, the registry when it was
\* called and when it returned, and the number of its sends
Call(b, at) ==
  [payload |-> b.payload, before |-> b.before, after |-> b.sessions,
   at |-> at, n |-> Len(b.sends)]

\* Variant of the users array with a fault: each username is listed once
RECURSIVE Distinct(_)
Distinct(s) ==
  IF s = <<>> THEN <<>>
  ELSE LET r == Distinct(SubSeq(s, 1, Len(s) - 1))
       IN  IF s[Len(s)] \in Range(r) THEN r ELSE Append(r, s[Len(s)])

Users_Distinct(reg, S) ==
  LET live == SelectSeq(reg, LAMBDA w : ~S[w].quit)
  IN  Distinct([i \in 1..Len(live) |-> S[live[i]].username])

\* the users array of broadcastUserList: values() . filter(!quit) . map(username)
Users(reg, S) ==
  LET live == SelectSeq(reg, LAMBDA w : ~S[w].quit)
  IN  [i \in 1..Len(live) |-> S[live[i]].username]

\* broadcastUserList()
BroadcastUserList(reg, S, F) ==
  Broadcast(reg, S, UserListMessage(Users(reg, S)), F)

\* Map.delete(webSocket)
Delete(reg, ws) == SelectSeq(reg, LAMBDA w : w # ws)

\* Variant of handleSession with a fault: the join notice is broadcast
\* before the roster
HandleSession_NoticeFirst(reg, S, ws, username, now, F) ==
  LET S0 == [S EXCEPT ![ws] = [username |-> username, quit |-> FALSE]]
      reg0 == IF ws \in Range(reg) THEN reg ELSE Append(reg, ws)
      b1 == Broadcast(reg0, S0,
                      ChatMessage(SystemName, Str(JoinedText(username)), now), F)
      b2 == BroadcastUserList(b1.sessions, b1.sess, F)
  IN  [sessions |-> b2.sessions, sess |-> b2.sess,
       log |-> b1.sends \o b2.sends, calls |-> <<Call(b1, 0), Call(b2, Len(b1.sends))>>,
       threw |-> FALSE]

\* handleSession(webSocket, username) up to the registration of the listeners:
\* create the Session, sessions.set, broadcastUserList, broadcast join notice
HandleSession(reg, S, ws, username, now, F) ==
  LET S0 == [S EXCEPT ![ws] = [username |-> username, quit |-> FALSE]]
      reg0 == IF ws \in Range(reg) THEN reg ELSE Append(reg, ws)
      b1 == BroadcastUserList(reg0, S0, F)
      b2 == Broadcast(b1.sessions, b1.sess,
                      ChatMessage(SystemName, Str(JoinedText(username)), now), F)
  IN  [sessions |-> b2.sessions, sess |-> b2.sess,
       log |-> b1.sends \o b2.sends, calls |-> <<Call(b1, 0), Call(b2, Len(b1.sends))>>,
       threw |-> FALSE]

\* the 'message' listener of a websocket
TypeMessage == Str(<<"m","e","s","s","a","g","e">>)
TypePing == Str(<<"p","i","n","g">>)

\* Variant of the catch block with a fault: the error is broadcast to the room
CatchReply_ToAll(reg, S, ws, before, F) ==
  LET b == Broadcast(reg, S, ErrorMessage, F)
  IN  [sessions |-> b.sessions, sess |-> b.sess, log |-> before \o b.sends,
       calls |-> <<Call(b, Len(before))>>, threw |-> FALSE]

\* the catch block: the error reply; a throwing send escapes the listener
CatchReply(reg, S, ws, before, F) ==
  LET e == Send(ws, Stringify(ErrorMessage), F)
  IN  [sessions |-> reg, sess |-> S, log |-> Append(before, e),
       calls |-> <<>>, threw |-> ~e.ok]

MessageListener(reg, S, ws, frame, t1, t2, F) ==
  LET ignored == [sessions |-> reg, sess |-> S, log |-> <<>>, calls |-> <<>>,
                  threw |-> FALSE]
      parsed == JSONParse(frame.data)
      data == parsed.val
  IN  IF frame.kind # "text" THEN ignored
      ELSE IF ~parsed.ok THEN CatchReply(reg, S, ws, <<>>, F)
      \* data.type on null throws a TypeError
      ELSE IF data.t = "null" THEN CatchReply(reg, S, ws, <<>>, F)
      ELSE IF data.type = TypeMessage /\ Truthy(data.text)
      THEN LET b == Broadcast(reg, S, ChatMessage(S[ws].username, data.text, t1), F)
           IN  [sessions |-> b.sessions, sess |-> b.sess, log |-> b.sends,
                calls |-> <<Call(b, 0)>>, threw |-> FALSE]
      ELSE IF data.type = TypePing
      THEN LET p == Send(ws, Stringify(PongMessage(t1, data.id, t2)), F)
           IN  IF p.ok
               THEN [sessions |-> reg, sess |-> S, log |-> <<p>>, calls |-> <<>>,
                     threw |-> FALSE]
               ELSE CatchReply(reg, S, ws, <<p>>, F)
      ELSE ignored

\* Variants of the close listener with a fault:
\* - the listener reads the registry entry and throws when there is none
CloseListener_RequiresEntry(reg, S, ws, now, F) ==
  LET S0 == [S EXCEPT ![ws].quit = TRUE]
      reg0 == Delete(reg, ws)
      b1 == BroadcastUserList(reg0, S0, F)
      b2 == Broadcast(b1.sessions, b1.sess,
                      ChatMessage(SystemName, Str(LeftText(S[ws].username)), now), F)
  IN  IF ws \in Range(reg)
      THEN [sessions |-> b2.sessions, sess |-> b2.sess,
            log |-> b1.sends \o b2.sends,
            calls |-> <<Call(b1, 0), Call(b2, Len(b1.sends))>>,
            threw |-> FALSE, deleted |-> TRUE]
      ELSE [sessions |-> reg, sess |-> S, log |-> <<>>, calls |-> <<>>,
            threw |-> TRUE, deleted |-> FALSE]

\* - the departure notice is broadcast before the roster
CloseListener_NoticeFirst(reg, S, ws, now, F) ==
  LET S0 == [S EXCEPT ![ws].quit = TRUE]
      reg0 == Delete(reg, ws)
      b1 == Broadcast(reg0, S0,
                      ChatMessage(SystemName, Str(LeftText(S[ws].username)), now), F)
      b2 == BroadcastUserList(b1.sessions, b1.sess, F)
  IN  [sessions |-> b2.sessions, sess |-> b2.sess,
       log |-> b1.sends \o b2.sends, calls |-> <<Call(b1, 0), Call(b2, Len(b1.sends))>>,
       threw |-> FALSE, deleted |-> ws \in Range(reg)]

\* the 'close' listener; deleted is what sessions.delete(webSocket) returns
CloseListener(reg, S, ws, now, F) ==
  LET S0 == [S EXCEPT ![ws].quit = TRUE]
      reg0 == Delete(reg, ws)
      b1 == BroadcastUserList(reg0, S0, F)
      b2 == Broadcast(b1.sessions, b1.sess,
                      ChatMessage(SystemName, Str(LeftText(S[ws].username)), now), F)
  IN  [sessions |-> b2.sessions, sess |-> b2.sess,
       log |-> b1.sends \o b2.sends, calls |-> <<Call(b1, 0), Call(b2, Len(b1.sends))>>,
       threw |-> FALSE, deleted |-> ws \in Range(reg)]

\* Variant of the error listener with a fault: the roster is not broadcast
ErrorListener_NoRoster(reg, S, ws, F) ==
  [sessions |-> Delete(reg, ws), sess |-> [S EXCEPT ![ws].quit = TRUE],
   log |-> <<>>, calls |-> <<>>, threw |-> FALSE, deleted |-> ws \in Range(reg)]

\* the 'error' listener
ErrorListener(reg, S, ws, F) ==
  LET S0 == [S EXCEPT ![ws].quit = TRUE]
      reg0 == Delete(reg, ws)
      b1 == BroadcastUserList(reg0, S0, F)
  IN  [sessions |-> b1.sessions, sess |-> b1.sess,
       log |-> b1.sends, calls |-> <<Call(b1, 0)>>, threw |-> FALSE,
       deleted |-> ws \in Range(reg)]

\* ---------------------------------------------------------- HTTP requests
\* headers.get / searchParams.get return null for an absent header or parameter
NoHeader == "<null>"
Param(s) == [has |-> TRUE, val |-> s]
NoParam == [has |-> FALSE, val |-> <<>>]

\* values of the username parameter: empty, blank (a space and a tab),
\* plain, padded with whitespace and line terminators that trim() strips,
\* and a second name
RawNames == {<<>>, <<" ", "\t">>, <<"a">>, <<"\t", "a", "<U+00A0>", "\n">>, <<"b">>}
\* requests: every raw username on the websocket route, and requests that
\* miss the route or the upgrade header with and without a username
Requests ==
  [path : {"/api/ws"}, upgrade : {"websocket"},
   username : {NoParam} \cup {Param(s) : s \in RawNames}]
  \cup
  [path : {"/api/ws"}, upgrade : {NoHeader, "WebSocket"},
   username : {NoParam, Param(<<"a">>)}]
  \cup
  [path : {"/"}, upgrade : {"websocket"}, username : {NoParam, Param(<<"a">>)}]
NoRequest == [path |-> "", upgrade |-> NoHeader, username |-> NoParam]

\* `!username`: null or the empty string
Falsy(param) == ~param.has \/ param.val = <<>>

\* the worker's fetch: forward a websocket upgrade on /api/ws that has a
\* username to the room, answer 400 without one, leave the rest to the app
EntryFetch(req) ==
  IF req.path = "/api/ws" /\ req.upgrade = "websocket"
  THEN IF Falsy(req.username) THEN "400" ELSE "forward"
  ELSE "app"

\* Variant of ChatRoom.fetch with a fault: a blank username is not rejected
ChatRoomFetch_NoBlankCheck(req) ==
  IF req.upgrade = NoHeader \/ req.upgrade # "websocket" THEN "426"
  ELSE IF Falsy(req.username) THEN "400"
  ELSE "101"

\* ChatRoom.fetch: the status it answers with; 101 means handleSession ran
ChatRoomFetch(req) ==
  IF req.upgrade = NoHeader \/ req.upgrade # "websocket" THEN "426"
  ELSE IF Falsy(req.username) \/ Len(Trim(req.username.val)) = 0 THEN "400"
  ELSE "101"

\* status of a request that enters through the worker
FetchStatus(req) ==
  IF EntryFetch(req) = "forward" THEN ChatRoomFetch(req) ELSE EntryFetch(req)

\* ----------------------------------------------------------------- state
Event(kind, ws, frame, req) == [kind |-> kind, ws |-> ws, frame |-> frame, req |-> req]

\* no userList frame yet, or the session is not registered
NoRoster == [has |-> FALSE, users |-> <<>>]

\* the rosters on the websockets after a reaction that made the sends l and
\* left the registry reg: the users of the last userList frame whose send
\* did not throw, kept while the session is registered
Seen(old, reg, l) ==
  [w \in Conns |->
     LET got == {i \in 1..Len(l) :
                   l[i].to = w /\ l[i].ok /\ l[i].payload.type = "userList"}
     IN  IF w \notin Range(reg) THEN NoRoster
         ELSE IF got = {} THEN old[w]
         ELSE [has |-> TRUE,
               users |-> l[CHOOSE i \in got : \A j \in got : j <= i].payload.users]]

\* pingTime: null, or the latency of the last answered ping
NoLatency == [has |-> FALSE, ms |-> 0]
Latency(ms) == [has |-> TRUE, ms |-> ms]
\* Date.now() - sentTime
Latencies == {1}

ClientStep(kind, ws, sent) == [kind |-> kind, ws |-> ws, sent |-> sent]

\* the client as ChatApp first renders it
ClientInit ==
  /\ isConnected = FALSE
  /\ connectionStatus = "disconnected"
  /\ messages = <<>>
  /\ onlineUsers = <<>>
  /\ pingTime = NoLatency
  /\ wsRef = 0
  /\ readyState = [w \in Sockets |-> "none"]
  /\ pingIntervalRef = FALSE
  /\ intervals = 0
  /\ pendingPings = {}
  /\ mounted = TRUE
  /\ cev = ClientStep("init", 0, <<>>)

Init ==
  /\ ClientInit
  /\ seen = [w \in Conns |-> NoRoster]
  /\ sessions = <<>>
  /\ sess = [w \in Conns |-> NoSession]
  /\ conn = [w \in Conns |-> "idle"]
  /\ ev = Event("init", 0, NoFrame, NoRequest)
  /\ log = <<>>
  /\ calls = <<>>
  /\ outcome = [status |-> "none", threw |-> FALSE, deleted |-> FALSE]

\* the accepted websockets that have reported neither error nor close
Open == {w \in Conns : conn[w] = "open"}
Idle == {w \in Conns : conn[w] = "idle"}

\* the server end of `new WebSocketPair()`: a websocket never seen before
NewWebSocket == CHOOSE w \in Idle : \A x \in Idle : w <= x

\* the clock readings that a reaction put into a payload
PayloadTimes(p) ==
  IF p.type = "message" THEN {p.timestamp}
  ELSE IF p.type = "pong" THEN {p.timestamp, p.serverTime}
  ELSE {}
ClockReadings(r) ==
  UNION ({PayloadTimes(r.log[i].payload) : i \in 1..Len(r.log)}
         \cup {PayloadTimes(r.calls[k].payload) : k \in 1..Len(r.calls)})

\* A reaction is determined by its event, by the websockets F whose send
\* throws and by the clock readings t1 <= t2.  Of the choices that give the
\* same reaction one is kept: F holds only websockets that the reaction
\* sends to, and a reading that went into no payload is the reading before
\* it (or 0).
Observed(r, t1, t2) ==
  /\ t1 \in ClockReadings(r) \/ t1 = 0
  /\ t2 \in ClockReadings(r) \/ t2 = t1

\* the websockets that the message listener calls send on for a frame
Addressees(ws, frame) ==
  LET r == MessageListener(sessions, sess, ws, frame, 0, 0, {})
  IN  {r.log[i].to : i \in 1..Len(r.log)}

\* the sessions registered before the reaction, without ws
Others(ws) == Range(sessions) \ {ws}

\* the websockets that handleSession's broadcasts call send on: the sessions
\* registered before the admission and the websocket being admitted
Admitting == IF Idle = {} THEN {} ELSE Range(sessions) \cup {NewWebSocket}

Apply(r) ==
  /\ sessions' = r.sessions
  /\ sess' = r.sess
  /\ log' = r.log
  /\ calls' = r.calls

\* an HTTP request that the worker or the room answers without a websocket
FetchRejected(req) ==
  /\ FetchStatus(req) # "101"
  /\ UNCHANGED <<sessions, sess, conn>>
  /\ log' = <<>>
  /\ calls' = <<>>
  /\ ev' = Event("fetch", 0, NoFrame, req)
  /\ outcome' = [status |-> FetchStatus(req), threw |-> FALSE, deleted |-> FALSE]

\* an HTTP request that ChatRoom.fetch answers with 101 after handleSession
FetchAccepted(req, now, F) ==
  /\ FetchStatus(req) = "101"
  /\ Idle # {}
  /\ LET ws == NewWebSocket
         r == HandleSession(sessions, sess, ws, Trim(req.username.val), now, F)
     IN  /\ Apply(r)
         /\ conn' = [conn EXCEPT ![ws] = "open"]
         /\ ev' = Event("fetch", ws, NoFrame, req)
         /\ outcome' = [status |-> "101", threw |-> r.threw, deleted |-> FALSE]

\* a frame arrives on an accepted websocket
MessageEvent(ws, frame, t1, t2, F) ==
  /\ conn[ws] = "open"
  /\ t1 <= t2
  /\ LET r == MessageListener(sessions, sess, ws, frame, t1, t2, F)
     IN  /\ Observed(r, t1, t2)
         /\ Apply(r)
         /\ outcome' = [status |-> "none", threw |-> r.threw, deleted |-> FALSE]
  /\ ev' = Event("message", ws, frame, NoRequest)
  /\ UNCHANGED conn

\* the websocket reports close (after an error event or without one)
CloseEvent(ws, now, F) ==
  /\ conn[ws] \in {"open", "errored"}
  /\ LET r == CloseListener(sessions, sess, ws, now, F)
     IN  /\ Apply(r)
         /\ outcome' = [status |-> "none", threw |-> r.threw, deleted |-> r.deleted]
  /\ conn' = [conn EXCEPT ![ws] = "closed"]
  /\ ev' = Event("close", ws, NoFrame, NoRequest)

\* the websocket reports an error
ErrorEvent(ws, F) ==
  /\ conn[ws] = "open"
  /\ LET r == ErrorListener(sessions, sess, ws, F)
     IN  /\ Apply(r)
         /\ outcome' = [status |-> "none", threw |-> r.threw, deleted |-> r.deleted]
  /\ conn' = [conn EXCEPT ![ws] = "errored"]
  /\ ev' = Event("error", ws, NoFrame, NoRequest)

\* the room's reactions; the observer is not kept
Rest == UNCHANGED <<seen, clientVars>>

Next ==
  \/ \E req \in Requests : FetchRejected(req) /\ Rest
  \/ \E req \in Requests, now \in Times, F \in SUBSET Admitting :
       FetchAccepted(req, now, F) /\ Rest
  \/ \E ws \in Open, frame \in Frames :
       \E F \in SUBSET Addressees(ws, frame) :
         \E t1 \in Times, t2 \in Times :
           MessageEvent(ws, frame, t1, t2, F) /\ Rest
  \/ \E ws \in Conns, now \in Times :
       \E F \in SUBSET Others(ws) : CloseEvent(ws, now, F) /\ Rest
  \/ \E ws \in Conns :
       \E F \in SUBSET Others(ws) : ErrorEvent(ws, F) /\ Rest

Spec == Init /\ [][Next]_vars

\* The room's reactions with the observer: after each reaction seen holds
\* what the registered sessions were last sent as roster.  No clock reading
\* reaches a userList frame, so the reactions are taken at reading 0.
Track == seen' = Seen(seen, sessions', log') /\ UNCHANGED clientVars

NextRoster ==
  \/ \E req \in Requests : FetchRejected(req) /\ Track
  \/ \E req \in Requests, F \in SUBSET Admitting :
       FetchAccepted(req, 0, F) /\ Track
  \/ \E ws \in Open, frame \in Frames :
       \E F \in SUBSET Addressees(ws, frame) :
         MessageEvent(ws, frame, 0, 0, F) /\ Track
  \/ \E ws \in Conns :
       \E F \in SUBSET Others(ws) : CloseEvent(ws, 0, F) /\ Track
  \/ \E ws \in Conns :
       \E F \in SUBSET Others(ws) : ErrorEvent(ws, F) /\ Track

SpecRoster == Init /\ [][NextRoster]_vars

\* ------------------------------------------------------ the browser client
\* frames of the room as the client's onmessage reads them after JSON.parse:
\* the type, the id of a pong, the users of a userList
Inbound(type, id, users) == [type |-> type, id |-> id, users |-> users]
InboundFrames ==
  {Inbound("message", 0, <<>>), Inbound("userList", 0, <<"a">>),
   Inbound("error", 0, <<>>)}
  \cup {Inbound("pong", id, <<>>) : id \in PingIds}

\* Variant of sendPing with a fault: only the reference is tested, not the
\* readyState
SendPing_NoGuard(cur, rs, pending, id) ==
  IF cur # 0
  THEN [sent |-> <<[ws |-> cur, state |-> rs[cur], type |-> "ping", id |-> id]>>,
        pendingPings |-> pending \cup {id}]
  ELSE [sent |-> <<>>, pendingPings |-> pending]

\* sendPing() with wsRef.current = cur, the readyStates rs, the keys of
\* pendingPings and the id that Math.random gives: the frames it sends,
\* each with the readyState of its WebSocket at the send, and the new keys
SendPing(cur, rs, pending, id) ==
  IF cur # 0 /\ rs[cur] = "open"
  THEN [sent |-> <<[ws |-> cur, state |-> rs[cur], type |-> "ping", id |-> id]>>,
        pendingPings |-> pending \cup {id}]
  ELSE [sent |-> <<>>, pendingPings |-> pending]

\* clearInterval(pingIntervalRef.current) when the reference is set
Cleared(ref, n) == IF ref /\ n > 0 THEN n - 1 ELSE n

\* handleUsernameSubmit -> connect(user): the form is rendered while the
\* component is mounted and isConnected is false; a new WebSocket replaces
\* wsRef.current
Connect ==
  /\ mounted
  /\ ~isConnected
  /\ \E w \in Sockets :
       /\ readyState[w] = "none"
       /\ \A x \in Sockets : readyState[x] = "none" => w <= x
       /\ readyState' = [readyState EXCEPT ![w] = "connecting"]
       /\ wsRef' = w
       /\ cev' = ClientStep("connect", w, <<>>)
  /\ connectionStatus' = "connecting"
  /\ UNCHANGED <<isConnected, messages, onlineUsers, pingTime, pingIntervalRef,
                 intervals, pendingPings, mounted>>

\* ws.onopen: startPingInterval() clears the old timer, pings, sets a timer
OnOpen(ws, id) ==
  /\ readyState[ws] = "connecting"
  /\ readyState' = [readyState EXCEPT ![ws] = "open"]
  /\ isConnected' = TRUE
  /\ connectionStatus' = "connected"
  /\ LET p == SendPing(wsRef, readyState', pendingPings, id)
     IN  /\ pendingPings' = p.pendingPings
         /\ cev' = ClientStep("open", ws, p.sent)
  /\ intervals' = Cleared(pingIntervalRef, intervals) + 1
  /\ pingIntervalRef' = TRUE
  /\ UNCHANGED <<messages, onlineUsers, pingTime, wsRef, mounted>>

\* a setInterval timer fires: sendPing()
Tick(id) ==
  /\ intervals > 0
  /\ LET p == SendPing(wsRef, readyState, pendingPings, id)
     IN  /\ pendingPings' = p.pendingPings
         /\ cev' = ClientStep("tick", 0, p.sent)
  /\ UNCHANGED <<isConnected, connectionStatus, messages, onlineUsers, pingTime,
                 wsRef, readyState, pingIntervalRef, intervals, mounted>>

\* ws.onmessage with the parsed frame data
OnMessage(ws, data, ms) ==
  /\ readyState[ws] \in {"open", "closing"}
  /\ data.type = "message" => Len(messages) < MaxMessages
  /\ messages' = IF data.type = "message" THEN Append(messages, data) ELSE messages
  /\ onlineUsers' = IF data.type = "userList" THEN data.users ELSE onlineUsers
  /\ IF data.type = "pong" /\ data.id \in pendingPings
     THEN /\ pingTime' = Latency(ms)
          /\ pendingPings' = pendingPings \ {data.id}
     ELSE UNCHANGED <<pingTime, pendingPings>>
  /\ cev' = ClientStep("message", ws, <<>>)
  /\ UNCHANGED <<isConnected, connectionStatus, wsRef, readyState,
                 pingIntervalRef, intervals, mounted>>

\* ws.onclose: the state is reset and stopPingInterval() clears the timer
OnClose(ws) ==
  /\ readyState[ws] \in {"connecting", "open", "closing"}
  /\ readyState' = [readyState EXCEPT ![ws] = "closed"]
  /\ isConnected' = FALSE
  /\ connectionStatus' = "disconnected"
  /\ messages' = <<>>
  /\ onlineUsers' = <<>>
  /\ pingTime' = NoLatency
  /\ intervals' = Cleared(pingIntervalRef, intervals)
  /\ pingIntervalRef' = FALSE
  /\ cev' = ClientStep("close", ws, <<>>)
  /\ UNCHANGED <<wsRef, pendingPings, mounted>>

\* ws.onerror: the status is reset and ws.close() starts the closing
OnError(ws) ==
  /\ readyState[ws] \in {"connecting", "open"}
  /\ readyState' = [readyState EXCEPT ![ws] = "closing"]
  /\ connectionStatus' = "disconnected"
  /\ cev' = ClientStep("error", ws, <<>>)
  /\ UNCHANGED <<isConnected, messages, onlineUsers, pingTime, wsRef,
                 pingIntervalRef, intervals, pendingPings, mounted>>

\* values of the message input: blank, and a text padded with whitespace
MessageInputs == {<<"\t">>, <<" ", "h", "i", "\n">>}

\* WebSocket.close(): a connecting or open WebSocket starts closing, a
\* closing or closed one stays as it is
Closing(rs, ws) ==
  IF rs[ws] \in {"connecting", "open"} THEN [rs EXCEPT ![ws] = "closing"] ELSE rs

\* handleSendMessage: the chat form is rendered while the component is
\* mounted and isConnected is true.  A text that is not blank is sent trimmed
\* on wsRef.current whatever its readyState: the frame is recorded with the
\* readyState at the send.  On a connecting WebSocket that send throws
\* InvalidStateError, on a closing or closed one the frame is discarded.
HandleSendMessage(input) ==
  /\ mounted
  /\ isConnected
  /\ cev' = ClientStep("send", wsRef,
               IF Len(Trim(input)) > 0 /\ wsRef # 0
               THEN <<[ws |-> wsRef, state |-> readyState[wsRef],
                       type |-> "message", text |-> Trim(input)]>>
               ELSE <<>>)
  /\ UNCHANGED <<isConnected, connectionStatus, messages, onlineUsers, pingTime,
                 wsRef, readyState, pingIntervalRef, intervals, pendingPings,
                 mounted>>

\* the cleanup of useEffect(..., []) when the component unmounts:
\* wsRef.current.close() when the reference is set, then stopPingInterval()
Unmount ==
  /\ mounted
  /\ mounted' = FALSE
  /\ readyState' = IF wsRef # 0 THEN Closing(readyState, wsRef) ELSE readyState
  /\ intervals' = Cleared(pingIntervalRef, intervals)
  /\ pingIntervalRef' = FALSE
  /\ cev' = ClientStep("unmount", wsRef, <<>>)
  /\ UNCHANGED <<isConnected, connectionStatus, messages, onlineUsers, pingTime,
                 wsRef, pendingPings>>

NextClient ==
  \/ Connect /\ UNCHANGED <<roomVars, seen>>
  \/ \E ws \in Sockets, id \in PingIds : OnOpen(ws, id) /\ UNCHANGED <<roomVars, seen>>
  \/ \E id \in PingIds : Tick(id) /\ UNCHANGED <<roomVars, seen>>
  \/ \E ws \in Sockets, data \in InboundFrames, ms \in Latencies :
       OnMessage(ws, data, ms) /\ UNCHANGED <<roomVars, seen>>
  \/ \E ws \in Sockets : OnClose(ws) /\ UNCHANGED <<roomVars, seen>>
  \/ \E ws \in Sockets : OnError(ws) /\ UNCHANGED <<roomVars, seen>>
  \/ \E input \in MessageInputs :
       HandleSendMessage(input) /\ UNCHANGED <<roomVars, seen>>
  \/ Unmount /\ UNCHANGED <<roomVars, seen>>

SpecClient == Init /\ [][NextClient]_vars

\* ======================================================================
\* Properties
\* ======================================================================
\* usernames of the sessions of registry reg, in registry order
Names(reg, S) == [i \in 1..Len(reg) |-> S[reg[i]].username]

Admitted == ev.kind = "fetch" /\ ev.ws # 0
Evicted == ev.kind \in {"close", "error"}

\* the registry at the moment the roster of the reaction is computed: the
\* registry before the reaction plus the admitted / minus the evicted session
RegistryAtChange(reg, e) ==
  IF e.kind = "fetch" THEN Append(reg, e.ws)
  ELSE SelectSeq(reg, LAMBDA w : w # e.ws)

\* the username each of those sessions was admitted with
NameAtChange(S, e, w) ==
  IF e.kind = "fetch" /\ w = e.ws THEN Trim(e.req.username.val) ELSE S[w].username

\* C1: after every admission and every close/error eviction the first
\* broadcast of the reaction is a userList whose users are exactly, entry by
\* entry, the trimmed usernames of the sessions registered (none of them
\* removal-pending) at that moment, one entry per session, and it is sent
\* to exactly those sessions.
C1_RosterIsExact ==
  [][(Admitted' \/ Evicted') =>
       LET reg == RegistryAtChange(sessions, ev')
           roster == [i \in 1..Len(reg) |-> NameAtChange(sess, ev', reg[i])]
       IN  /\ \A i \in 1..Len(reg) : ~sess[reg[i]].quit \/ reg[i] = ev'.ws
           /\ Len(calls') >= 1
           /\ calls'[1].payload = UserListMessage(roster)
           /\ Len(log') >= Len(reg)
           /\ \A i \in 1..Len(reg) :
                log'[i].to = reg[i] /\ log'[i].payload = UserListMessage(roster)
    ]_vars

\* C1 witness: two sessions with the same username are registered, then one
\* closes: the roster sent to the remaining one has one entry.
C1_Witness ==
  /\ ev.kind = "close"
  /\ ev.ws = 1
  /\ sess[1].username = sess[2].username
  /\ Len(calls) >= 1
  /\ calls[1].payload.type = "userList"
  /\ calls[1].payload.users = <<sess[2].username>>
  /\ log[1].to = 2 /\ log[1].ok

\* a text frame that parses to {type:"message", text:t} with t a non-empty string
IsChatFrame(frame) ==
  /\ frame.kind = "text"
  /\ JSONParse(frame.data).ok
  /\ JSONParse(frame.data).val.t = "object"
  /\ JSONParse(frame.data).val.type = Str(<<"m","e","s","s","a","g","e">>)
  /\ JSONParse(frame.data).val.text.t = "string"
  /\ JSONParse(frame.data).val.text.v # <<>>

\* a text frame that parses to {type:"ping", ...}
IsPingFrame(frame) ==
  /\ frame.kind = "text"
  /\ JSONParse(frame.data).ok
  /\ JSONParse(frame.data).val.t = "object"
  /\ JSONParse(frame.data).val.type = Str(<<"p","i","n","g">>)

\* a text frame that is not JSON
IsUnparsable(frame) == frame.kind = "text" /\ ~JSONParse(frame.data).ok

\* C2: a chat frame {type:"message", text:t}, t non-empty, from a registered
\* session with username u makes the room send exactly one frame to each
\* session registered at that moment, the sender included, in registry
\* order: a message frame with username u and text t verbatim (and one
\* timestamp); nothing else is sent to anyone.
C2_ChatIsRelayedToAll ==
  [][(ev'.kind = "message" /\ ev'.ws \in Range(sessions) /\ IsChatFrame(ev'.frame)) =>
       /\ Len(log') = Len(sessions)
       /\ ev'.ws \in {log'[i].to : i \in 1..Len(log')}
       /\ \A i \in 1..Len(sessions) :
            /\ log'[i].to = sessions[i]
            /\ log'[i].payload.type = "message"
            /\ log'[i].payload.username = sess[ev'.ws].username
            /\ log'[i].payload.text = JSONParse(ev'.frame.data).val.text
            /\ log'[i].payload = log'[1].payload
    ]_vars

\* C2 witness: the second of two registered sessions sends "hi" and both
\* sessions are sent the message.
C2_Witness ==
  /\ ev.kind = "message"
  /\ ev.ws = 2
  /\ IsChatFrame(ev.frame)
  /\ Len(log) = 2
  /\ log[1].to = 1 /\ log[1].ok
  /\ log[2].to = 2 /\ log[2].ok
  /\ log[2].payload.type = "message"
  /\ log[2].payload.username = sess[2].username
  /\ log[2].payload.text = Str(<<"h","i">>)

\* the sends of broadcast call c among the sends l of its reaction
CallSends(l, c) == SubSeq(l, c.at + 1, c.at + c.n)

\* a send to w failed in broadcast call c
FailedIn(l, c, w) ==
  \E i \in (c.at + 1)..(c.at + c.n) : l[i].to = w /\ ~l[i].ok

\* C3: (a) a session whose send fails in a broadcast call is out of the
\* registry when that call returns (and stays out for the rest of the
\* reaction); (b) a session that is out of the registry never comes back, and
\* every later userList is the list of usernames of a registry that does not
\* contain it, so it has no entry for that session.
C3_FailedSendEvicts ==
  [][/\ \A k \in 1..Len(calls') : \A w \in Conns :
          FailedIn(log', calls'[k], w) =>
            /\ w \notin Range(calls'[k].after)
            /\ w \notin Range(sessions')
            /\ \A j \in (k + 1)..Len(calls') : w \notin Range(calls'[j].before)
     /\ \A w \in Conns :
          (conn[w] # "idle" /\ w \notin Range(sessions)) =>
            /\ w \notin Range(sessions')
            /\ \A k \in 1..Len(calls') :
                 calls'[k].payload.type = "userList" =>
                   /\ w \notin Range(calls'[k].before)
                   /\ calls'[k].payload.users = Names(calls'[k].before, sess')
    ]_vars

\* C3 witness: session 1 was evicted because a send to it failed (its
\* websocket is still open), and the roster broadcast by the next admission
\* lists only the new session.
C3_Witness ==
  /\ ev.kind = "fetch" /\ ev.ws = 2
  /\ conn[1] = "open" /\ sess[1].quit
  /\ calls[1].payload.type = "userList"
  /\ calls[1].before = <<2>>
  /\ calls[1].payload.users = <<sess[2].username>>

\* C4 (as claimed): after a close or an error event of a websocket the
\* session is out of the registry, the first broadcast is the roster and a
\* second broadcast is the departure notice from "System" to the sessions
\* that remain.
C4_DepartureAnnounced ==
  Evicted =>
    /\ ev.ws \notin Range(sessions)
    /\ Len(calls) >= 1
    /\ calls[1].payload.type = "userList"
    /\ ev.ws \notin Range(calls[1].before)
    /\ Len(calls) = 2
    /\ calls[2].payload =
         ChatMessage(SystemName, Str(LeftText(sess[ev.ws].username)),
                     calls[2].payload.timestamp)
    /\ calls[2].before = calls[1].after

\* What the listeners do: the close listener announces the departure, the
\* error listener only removes the session and broadcasts the roster.
C4_CloseAnnouncesErrorDoesNot ==
  Evicted =>
    /\ ev.ws \notin Range(sessions)
    /\ Len(calls) >= 1
    /\ calls[1].payload.type = "userList"
    /\ ev.ws \notin Range(calls[1].before)
    /\ ev.kind = "error" => Len(calls) = 1
    /\ ev.kind = "close" =>
         /\ Len(calls) = 2
         /\ calls[2].payload =
              ChatMessage(SystemName, Str(LeftText(sess[ev.ws].username)),
                          calls[2].payload.timestamp)

\* C5: a frame {type:"ping", id:x} from a registered session makes the room
\* call send first with a pong whose id is x, on the sender's websocket;
\* that is the only pong and no send goes to another websocket; when the
\* websocket takes the pong nothing else is sent at all; the registry and
\* every Session object are as before.
C5_PingGetsOnePong ==
  [][(ev'.kind = "message" /\ ev'.ws \in Range(sessions) /\ IsPingFrame(ev'.frame)
        /\ JSONParse(ev'.frame.data).val.id # Undefined) =>
       /\ Len(log') >= 1
       /\ log'[1].to = ev'.ws
       /\ log'[1].payload.type = "pong"
       /\ DOMAIN log'[1].payload = {"type", "timestamp", "id", "serverTime"}
       /\ log'[1].payload.id = JSONParse(ev'.frame.data).val.id
       /\ \A i \in 2..Len(log') :
            log'[i].to = ev'.ws /\ log'[i].payload.type # "pong"
       /\ log'[1].ok => Len(log') = 1
       /\ calls' = <<>>
       /\ sessions' = sessions
       /\ sess' = sess
    ]_vars

\* C5 witness: the second of two registered sessions pings with id "abc" and
\* is sent the one pong.
C5_Witness ==
  /\ ev.kind = "message" /\ ev.ws = 2
  /\ IsPingFrame(ev.frame)
  /\ sessions = <<1, 2>>
  /\ Len(log) = 1
  /\ log[1].to = 2 /\ log[1].ok
  /\ log[1].payload.type = "pong"
  /\ log[1].payload.id = Str(<<"a","b","c">>)

\* C6: a text frame that is not JSON, from a registered session, makes the
\* room call send exactly once: the error frame on the sender's websocket;
\* the sender stays registered with its websocket open, and the registry,
\* the Session objects and the websockets of all sessions are as before.
C6_UnparsableGetsOneError ==
  [][(ev'.kind = "message" /\ ev'.ws \in Range(sessions) /\ IsUnparsable(ev'.frame)) =>
       /\ Len(log') = 1
       /\ log'[1].to = ev'.ws
       /\ log'[1].payload = [type |-> "error", message |-> "Invalid message format"]
       /\ calls' = <<>>
       /\ ev'.ws \in Range(sessions')
       /\ conn'[ev'.ws] = "open"
       /\ sessions' = sessions
       /\ sess' = sess
       /\ conn' = conn
    ]_vars

\* C6 witness: the first of two registered sessions sends "not json" and is
\* sent the error frame; both sessions remain.
C6_Witness ==
  /\ ev.kind = "message" /\ ev.ws = 1
  /\ ev.frame = TextFrame("not json")
  /\ sessions = <<1, 2>>
  /\ Len(log) = 1
  /\ log[1].to = 1 /\ log[1].ok
  /\ log[1].payload.type = "error"

\* position of the first send to w with a payload of the given type, 0 if none
FirstSend(l, w, type) ==
  IF \E i \in 1..Len(l) : l[i].to = w /\ l[i].payload.type = type
  THEN CHOOSE i \in 1..Len(l) :
         /\ l[i].to = w /\ l[i].payload.type = type
         /\ \A j \in 1..(i - 1) : ~(l[j].to = w /\ l[j].payload.type = type)
  ELSE 0

\* C7 (as claimed): an admission happens on a websocket that has had no
\* reaction before (frames are handled only on websockets already admitted),
\* and performs in this order: the insertion of the session at the end of
\* the registry, a userList broadcast whose last entry is the new username,
\* the join notice "<username> joined the chat" from "System"; the new
\* session receives the roster and then the join notice and is registered.
C7_AdmissionOrder ==
  [][/\ ev'.kind = "message" => conn[ev'.ws] = "open"
     /\ Admitted' =>
          LET ws == ev'.ws
              u == Trim(ev'.req.username.val)
          IN  /\ conn[ws] = "idle"
              /\ ws \notin Range(sessions)
              /\ Len(calls') = 2
              /\ calls'[1].before = Append(sessions, ws)
              /\ calls'[1].payload.type = "userList"
              /\ calls'[1].payload.users[Len(calls'[1].payload.users)] = u
              /\ calls'[2].before = calls'[1].after
              /\ calls'[2].payload.type = "message"
              /\ calls'[2].payload.username = <<"S","y","s","t","e","m">>
              /\ calls'[2].payload.text = Str(u \o <<" joined the chat">>)
              /\ log' = CallSends(log', calls'[1]) \o CallSends(log', calls'[2])
              /\ calls'[1].at = 0 /\ calls'[2].at = calls'[1].n
              /\ FirstSend(log', ws, "userList") > 0
              /\ FirstSend(log', ws, "message") > FirstSend(log', ws, "userList")
              /\ log'[FirstSend(log', ws, "userList")].ok
              /\ log'[FirstSend(log', ws, "message")].ok
              /\ ws \in Range(sessions')
    ]_vars

\* C7 (amended): an admission happens on a websocket that has had no
\* reaction before (frames are handled only on websockets already admitted),
\* and performs in this order: the insertion of the session at the end of
\* the registry, a userList broadcast whose last entry is the new username,
\* the join notice "<username> joined the chat" from "System", broadcast to
\* the sessions that the roster broadcast left registered.  The new session
\* is always sent the roster.  When that send does not throw it is sent the
\* join notice after the roster; when it throws the new session is swept
\* before the join notice and is sent none.  After the admission the new
\* session is registered exactly when both sends to it did not throw.
C7_AdmissionOrderWhileSendable ==
  [][/\ ev'.kind = "message" => conn[ev'.ws] = "open"
     /\ Admitted' =>
          LET ws == ev'.ws
              u == Trim(ev'.req.username.val)
              roster == FirstSend(log', ws, "userList")
              notice == FirstSend(log', ws, "message")
          IN  /\ conn[ws] = "idle"
              /\ ws \notin Range(sessions)
              /\ Len(calls') = 2
              /\ calls'[1].before = Append(sessions, ws)
              /\ calls'[1].payload.type = "userList"
              /\ calls'[1].payload.users[Len(calls'[1].payload.users)] = u
              /\ calls'[2].before = calls'[1].after
              /\ calls'[2].payload.type = "message"
              /\ calls'[2].payload.username = <<"S","y","s","t","e","m">>
              /\ calls'[2].payload.text = Str(u \o <<" joined the chat">>)
              /\ log' = CallSends(log', calls'[1]) \o CallSends(log', calls'[2])
              /\ calls'[1].at = 0 /\ calls'[2].at = calls'[1].n
              /\ roster > 0
              /\ roster <= calls'[1].n
              /\ log'[roster].ok => notice > calls'[1].n
              /\ ~log'[roster].ok =>
                   /\ notice = 0
                   /\ ws \notin Range(calls'[1].after)
              /\ ws \in Range(sessions') <=>
                   (log'[roster].ok /\ notice > 0 /\ log'[notice].ok)
    ]_vars

\* C7 witness: with one session registered a second is admitted and the
\* roster send on its websocket throws: the first session is sent the roster
\* and the join notice, the new one is sent the roster only and is not
\* registered after the admission.
C7_Witness ==
  /\ Admitted /\ ev.ws = 2
  /\ sessions = <<1>>
  /\ Len(log) = 3
  /\ log[1].to = 1 /\ log[1].payload.type = "userList" /\ log[1].ok
  /\ log[2].to = 2 /\ log[2].payload.type = "userList" /\ ~log[2].ok
  /\ log[3].to = 1 /\ log[3].payload.type = "message" /\ log[3].ok
  /\ sess[2].quit

\* no send of broadcast call c failed
NoFailure(l, c) == \A i \in (c.at + 1)..(c.at + c.n) : l[i].ok

\* C8: a broadcast call in which no send fails performs exactly one send per
\* session registered when it is called, in registry order, each with the
\* one serialized payload, and returns with the registry unchanged.
C8_BroadcastSendsNIdentical ==
  [][\A k \in 1..Len(calls') :
       LET c == calls'[k]
           reg == IF k = 1
                  THEN (IF ev'.kind = "message" THEN sessions
                        ELSE RegistryAtChange(sessions, ev'))
                  ELSE calls'[k - 1].after
           snd == CallSends(log', c)
       IN  /\ c.before = reg
           /\ NoFailure(log', c) =>
                /\ Len(snd) = Len(reg)
                /\ \A i \in 1..Len(reg) :
                     snd[i].to = reg[i] /\ snd[i].payload = snd[1].payload
                /\ c.after = reg
                /\ k = Len(calls') => sessions' = reg
    ]_vars

\* C8 witness: a chat message is broadcast to two registered sessions, no
\* send fails, and the two sessions are still registered.
C8_Witness ==
  /\ ev.kind = "message"
  /\ Len(calls) = 1
  /\ calls[1].before = <<1, 2>>
  /\ NoFailure(log, calls[1])
  /\ Len(CallSends(log, calls[1])) = 2
  /\ sessions = <<1, 2>>

\* C9 (as claimed): a binary frame from a registered session is answered
\* with exactly one error frame on the sender's websocket.
C9_BinaryGetsOneError ==
  (ev.kind = "message" /\ ev.frame.kind = "binary" /\ ev.ws \in Range(sessions)) =>
    /\ Len(log) = 1
    /\ log[1].to = ev.ws
    /\ log[1].payload.type = "error"

\* a request that is not a websocket upgrade, or has no username, or a
\* username that is blank after trimming
Unacceptable(req) ==
  \/ req.upgrade # "websocket"
  \/ ~req.username.has
  \/ Trim(req.username.val) = <<>>

\* C10: a request that is not a websocket upgrade or whose username is
\* missing or blank after trimming is answered without a websocket: no
\* Session is created, the registry is unchanged, nothing is sent; and every
\* registered session has a non-empty username without surrounding
\* whitespace, which is the same before and after every reaction in which
\* the session stays registered.
C10_RejectedRequests ==
  [][/\ (ev'.kind = "fetch" /\ Unacceptable(ev'.req)) =>
          /\ outcome'.status \in {"400", "426", "app"}
          /\ ev'.ws = 0
          /\ UNCHANGED <<sessions, sess, conn>>
          /\ log' = <<>>
          /\ calls' = <<>>
     /\ \A w \in Range(sessions') :
          /\ sess'[w].username # <<>>
          /\ Head(sess'[w].username) \notin Stripped
          /\ sess'[w].username[Len(sess'[w].username)] \notin Stripped
          /\ w \in Range(sessions) => sess'[w].username = sess[w].username
    ]_vars

\* C10 witness: with a session registered, a websocket upgrade whose
\* username is a space and a tab is answered 400 and the registry is as it was.
C10_Witness ==
  /\ ev.kind = "fetch"
  /\ ev.req.path = "/api/ws" /\ ev.req.upgrade = "websocket"
  /\ ev.req.username = Param(<<" ", "\t">>)
  /\ outcome.status = "400"
  /\ ev.ws = 0
  /\ sessions = <<1>>
  /\ log = <<>>

\* C11 (as claimed): every send that fails in a reaction, in a broadcast or
\* in the direct pong or error reply, leaves its session marked quit and out
\* of the registry; the same payload is not sent to that websocket again;
\* and the reaction ends without an exception.
C11_DeliveryFailureRecovered ==
  /\ ~outcome.threw
  /\ \A i \in 1..Len(log) :
       ~log[i].ok =>
         /\ sess[log[i].to].quit
         /\ log[i].to \notin Range(sessions)
         /\ \A j \in (i + 1)..Len(log) :
              ~(log[j].to = log[i].to /\ log[j].payload = log[i].payload)

\* C12: in every broadcast call, whichever sends fail, each session
\* registered when the call starts gets exactly one send, in registry order,
\* of the one serialized payload; the registry the call returns is the one it
\* started with minus the sessions whose send failed (nothing is removed
\* before the last send); and a reaction that broadcasts sends no error
\* frame to anyone, so the originator is told nothing of a failed recipient.
C12_FailureDoesNotAbort ==
  \A k \in 1..Len(calls) :
    LET c == calls[k]
        snd == CallSends(log, c)
    IN  /\ Len(snd) = Len(c.before)
        /\ \A i \in 1..Len(c.before) :
             snd[i].to = c.before[i] /\ snd[i].payload = c.payload
        /\ c.after = SelectSeq(c.before, LAMBDA w : ~FailedIn(log, c, w))
        /\ \A i \in 1..Len(log) : log[i].payload.type # "error"

\* C12 witness: the second of two registered sessions sends a chat message,
\* the send to the first session fails and the send to the second, the
\* originator, is still made; the first session is swept afterwards.
C12_Witness ==
  /\ ev.kind = "message" /\ ev.ws = 2
  /\ IsChatFrame(ev.frame)
  /\ Len(calls) = 1
  /\ calls[1].before = <<1, 2>>
  /\ Len(log) = 2
  /\ log[1].to = 1 /\ ~log[1].ok
  /\ log[2].to = 2 /\ log[2].ok
  /\ sessions = <<2>>

\* C13 (as claimed): a frame that arrives on a websocket whose session is
\* no longer in the registry causes no broadcast, no reply and no change of
\* the registry.
C13_ClosedForGood ==
  [][(ev'.kind = "message" /\ ev'.ws \notin Range(sessions)) =>
       /\ log' = <<>>
       /\ calls' = <<>>
       /\ sessions' = sessions
    ]_vars

\* C14 (as claimed): no send of a reaction goes to a session whose quit flag
\* was set before the reaction, and after a send to a session fails in a
\* broadcast call (which sets its quit flag) the reaction makes no further
\* send to that session.
C14_QuitNeverSent ==
  [][/\ \A i \in 1..Len(log') : ~sess[log'[i].to].quit
     /\ \A k \in 1..Len(calls') : \A w \in Conns :
          FailedIn(log', calls'[k], w) =>
            \A j \in (calls'[k].at + calls'[k].n + 1)..Len(log') : log'[j].to # w
    ]_vars

\* C15: between two reactions every session in the registry has quit false:
\* a session marked by a failed send, a close or an error is deleted before
\* the reaction that marked it ends.
C15_RegisteredNotQuit ==
  \A w \in Range(sessions) : ~sess[w].quit

\* C15 witness: a broadcast has just marked the first of two registered
\* sessions because the send to it failed; it is gone from the registry and
\* the other session remains, unmarked.
C15_Witness ==
  /\ Len(calls) >= 1
  /\ calls[1].before = <<1, 2>>
  /\ FailedIn(log, calls[1], 1)
  /\ sess[1].quit
  /\ sessions = <<2>>
  /\ ~sess[2].quit

\* a text frame that is valid JSON, an object, and neither a chat message
\* with a non-empty text nor a ping with an id
IsUnhandled(frame) ==
  /\ frame.kind = "text"
  /\ JSONParse(frame.data).ok
  /\ JSONParse(frame.data).val.t = "object"
  /\ ~IsChatFrame(frame)
  /\ ~(IsPingFrame(frame) /\ JSONParse(frame.data).val.id # Undefined)

\* C16 (as claimed): a valid JSON object with an unhandled type or without
\* a required field (text of a message, id of a ping) causes no send at
\* all, so no reply and no error frame either, no broadcast and no change
\* of the registry.
C16_UnhandledIgnored ==
  [][(ev'.kind = "message" /\ IsUnhandled(ev'.frame)) =>
       /\ log' = <<>>
       /\ calls' = <<>>
       /\ sessions' = sessions
    ]_vars

\* a websocket that was accepted and whose session is not in the registry
Gone(w) == conn[w] # "idle" /\ w \notin Range(sessions)

\* C17 (as claimed): a websocket whose session is out of the registry never
\* appears in it again, and a close or error event of such a websocket
\* leaves the registry as it was and does not throw.
C17_EvictionIdempotent ==
  [][/\ \A w \in Conns : Gone(w) => w \notin Range(sessions')
     /\ (Evicted' /\ Gone(ev'.ws)) =>
          /\ sessions' = sessions
          /\ ~outcome'.threw
    ]_vars

\* the websockets that a send of the reaction with sends l failed on
FailedTo(l) == {l[i].to : i \in {j \in 1..Len(l) : ~l[j].ok}}

\* C17 (amended): a websocket whose session is out of the registry never
\* appears in it again; a close or error event of such a websocket deletes
\* nothing (sessions.delete returns false, the roster broadcast starts from
\* the registry as it was) and does not throw; the registry after the
\* reaction is the registry before it without the sessions that a send of
\* the reaction's broadcasts failed on, so it is unchanged when no send fails.
C17_NoResurrection ==
  [][/\ \A w \in Conns : Gone(w) => w \notin Range(sessions')
     /\ (Evicted' /\ Gone(ev'.ws)) =>
          /\ ~outcome'.deleted
          /\ ~outcome'.threw
          /\ calls'[1].before = sessions
          /\ sessions' = SelectSeq(sessions, LAMBDA w : w \notin FailedTo(log'))
          /\ FailedTo(log') = {} => sessions' = sessions
    ]_vars

\* C17 witness: the second session was evicted before (its websocket
\* reported an error or a send to it failed); its close event deletes
\* nothing, the first session is sent the roster and stays registered.
C17_Witness ==
  /\ ev.kind = "close" /\ ev.ws = 2
  /\ ~outcome.deleted /\ ~outcome.threw
  /\ sessions = <<1>>
  /\ calls[1].before = <<1>>
  /\ log[1].to = 1 /\ log[1].ok

\* C18: the sends of a reaction are made broadcast by broadcast: every send
\* of an earlier broadcast call precedes every send of a later one, so no
\* websocket is sent the later frame before the earlier; on admission the
\* first broadcast is the roster and the second the join notice, on close
\* the first is the roster and the second the departure notice.
C18_SendsInCallOrder ==
  /\ \A k \in 1..Len(calls) :
       /\ calls[k].at = (IF k = 1 THEN 0 ELSE calls[k - 1].at + calls[k - 1].n)
       /\ calls[k].at + calls[k].n <= Len(log)
       /\ \A i \in (calls[k].at + 1)..(calls[k].at + calls[k].n) :
            log[i].payload = calls[k].payload
  /\ \A k \in 1..Len(calls), j \in 1..Len(calls) :
       k < j =>
         \A a \in 1..Len(log), b \in 1..Len(log) :
           (/\ log[a].payload = calls[k].payload
            /\ log[b].payload = calls[j].payload
            /\ log[a].to = log[b].to) => a < b
  /\ (Admitted \/ ev.kind = "close") =>
       /\ Len(calls) = 2
       /\ calls[1].payload.type = "userList"
       /\ calls[2].payload.type = "message"
       /\ calls[2].payload.username = SystemName
       /\ calls[2].payload.text =
            Str(IF Admitted THEN JoinedText(sess[ev.ws].username)
                ELSE LeftText(sess[ev.ws].username))

\* C18 witness: the first of two sessions closes; the remaining session is
\* sent the roster and after it the departure notice.
C18_Witness ==
  /\ ev.kind = "close" /\ ev.ws = 1
  /\ outcome.deleted
  /\ Len(log) = 2
  /\ log[1].to = 2 /\ log[1].ok /\ log[1].payload.type = "userList"
  /\ log[2].to = 2 /\ log[2].ok /\ log[2].payload.type = "message"
  /\ log[2].payload.text = Str(LeftText(sess[1].username))

\* C19 (as claimed): between reactions, the last userList frame delivered
\* to each registered session lists exactly the usernames of the sessions
\* in the registry.
C19_RosterConsistent ==
  \A w \in Range(sessions) :
    seen[w].has /\ seen[w].users = Names(sessions, sess)

\* a session that a broadcast swept after a failed send and whose websocket
\* has reported neither close nor error since
Swept(w) == Gone(w) /\ sess[w].quit /\ conn[w] = "open"

\* the sequences of distinct websockets
Arrangements ==
  {R \in UNION {[1..n -> Conns] : n \in 0..MaxConns} :
     \A i \in 1..Len(R), j \in 1..Len(R) : R[i] = R[j] => i = j}

\* the registry with swept sessions put back at any places
WithSwept ==
  {R \in Arrangements :
     /\ SelectSeq(R, LAMBDA w : w \in Range(sessions)) = sessions
     /\ \A i \in 1..Len(R) : R[i] \in Range(sessions) \/ Swept(R[i])}

\* C19 (amended): between reactions, the last userList frame delivered to
\* each registered session lists the usernames of the sessions in the
\* registry, in registry order, and besides them only usernames of sessions
\* that a broadcast swept after a failed send and whose websocket has since
\* reported neither close nor error; it lists exactly the registry when
\* there is no such session.
C19_RosterLagsOnlyBySweep ==
  \A w \in Range(sessions) :
    /\ seen[w].has
    /\ seen[w].users \in {Names(R, sess) : R \in WithSwept}
    /\ (\A x \in Conns : ~Swept(x)) => seen[w].users = Names(sessions, sess)

\* C19 witness: the send of a chat message to the first of two registered
\* sessions failed and it was swept; the roster that the second session
\* holds still lists both.
C19_Witness ==
  /\ ev.kind = "message"
  /\ sessions = <<2>>
  /\ Swept(1)
  /\ FailedTo(log) = {1}
  /\ seen[2].has
  /\ seen[2].users = <<sess[1].username, sess[2].username>>

\* C20: (a) every ping the client sends goes to wsRef.current while its
\* readyState is open; (b) after the close event of a WebSocket, whether or
\* not an error event came first, the client is disconnected, its message
\* list and roster are empty, its latency is null and no interval timer is
\* left; (c) an error event starts the closing of that WebSocket; (d) while
\* no timer is left no ping is sent and no timer appears, except in the
\* open event of a connection.
C20_PingsOnlyWhileOpen ==
  [][/\ \A i \in 1..Len(cev'.sent) :
          cev'.sent[i].type = "ping" =>
            /\ cev'.sent[i].state = "open"
            /\ cev'.sent[i].ws = wsRef'
            /\ readyState'[cev'.sent[i].ws] = "open"
     /\ cev'.kind = "close" =>
          /\ readyState'[cev'.ws] = "closed"
          /\ ~isConnected'
          /\ connectionStatus' = "disconnected"
          /\ messages' = <<>>
          /\ onlineUsers' = <<>>
          /\ ~pingTime'.has
          /\ ~pingIntervalRef'
          /\ intervals' = 0
     /\ cev'.kind = "error" =>
          /\ readyState'[cev'.ws] = "closing"
          /\ connectionStatus' = "disconnected"
     /\ (intervals = 0 /\ cev'.kind # "open") =>
          /\ \A i \in 1..Len(cev'.sent) : cev'.sent[i].type # "ping"
          /\ intervals' = 0
    ]_vars

\* C20 witness: the client pinged on its open WebSocket (the ping is still
\* unanswered) and the WebSocket has just closed: the client is disconnected,
\* everything is cleared, no timer is left.
C20_Witness ==
  /\ cev.kind = "close" /\ cev.ws = 1
  /\ wsRef = 1
  /\ pendingPings # {}
  /\ readyState[1] = "closed"
  /\ ~isConnected
  /\ connectionStatus = "disconnected"
  /\ messages = <<>> /\ onlineUsers = <<>> /\ ~pingTime.has
  /\ intervals = 0 /\ ~pingIntervalRef

====
